---- MODULE Spec2Model ----
(***************************************************************************)
(* A model of SRAMetadataX (src/cli.py): the constructor that opens the    *)
(* SRAmetadb.sqlite store, download_sradb (the acquisition pipeline),      *)
(* terms / _terms_helper (the term query builder and resolver),            *)
(* all_sm_lcp (the study -> experiment cascade) and srx_sa_lcp (the field  *)
(* extractor).                                                             *)
(*                                                                         *)
(* Text is a sequence of one-character strings; None / SQL NULL is the     *)
(* value NULL.  Four specifications share the variables:                   *)
(*   Spec         the constructor and download_sradb                       *)
(*   SpecTerms    one call of terms                                        *)
(*   SpecCascade  one call of all_sm_lcp                                   *)
(*   SpecExtract  one call of srx_sa_lcp                                   *)
(***************************************************************************)
EXTENDS Integers, Sequences, FiniteSets, TLC

VARIABLES
    \* ---- the process and the files it works on
    pc,            \* position of the process
    ctx,           \* who called download_sradb: "none", "init" (line 61), "cli"
    gzFile,        \* cwd/SRAmetadb.sqlite.gz
    sqliteFile,    \* cwd/SRAmetadb.sqlite
    dbpath,        \* the marker file .databasepath
    sqlite_file,   \* self.sqlite_file
    db,            \* self.db: the store the connection is open on
    cursor,        \* self.cursor
    io,            \* the I/O download_sradb has done, in order
    err,           \* the exception that ended the call, or "none"
    provenance,    \* what line 169 printed as metaInfo
    fs0,           \* the two snapshot files as they were when the process started
    \* ---- the store's content and one query call
    sra,           \* rows of the sra relation, in scan order
    experiment,    \* rows of the experiment relation, in scan order
    arg,           \* the arguments of the call
    ret,           \* the value the call returned
    printed,       \* result lines printed, in order
    notices,       \* messages printed, in order
    executed,      \* the statements run on the cursor, each with its rows
    todo,          \* all_sm_lcp: elements of unique_srps not yet visited
    visited,       \* all_sm_lcp: the elements visited so far, in order
    results_final, \* all_sm_lcp: results_final
    disc           \* all_sm_lcp: for each append to results_final, the visit that made it

fileVars == <<gzFile, sqliteFile, dbpath, fs0>>
selfVars == <<sqlite_file, db, cursor>>
acqVars == <<ctx, io, provenance>>
storeVars == <<sra, experiment>>
callVars == <<arg, ret, printed, notices, executed>>
cascadeVars == <<todo, visited, results_final, disc>>
vars == <<pc, err, fileVars, selfVars, acqVars, storeVars, callVars, cascadeVars>>

(***************************************************************************)
(* Values                                                                  *)
(***************************************************************************)
\* Python's None and SQL's NULL
NULL == <<"NULL">>

RetNone == [isNone |-> TRUE, val |-> <<>>]

RetList(l) == [isNone |-> FALSE, val |-> l]

NoArg == [kind |-> "none"]

(***************************************************************************)
(* The constructor and download_sradb                                      *)
(***************************************************************************)
Exists(f) == f # "absent"

\* how a call of _download ends: the request is refused before a byte
\* arrives, the stream breaks after some chunks, or the whole file arrives
Outcomes == {"refused", "broken", "ok"}

\* _download: the content of file_path after the call.  The file is opened
\* "wb" (created or truncated) before the request is made, so it exists
\* whatever the outcome.
_download(outcome) ==
    CASE outcome = "refused" -> "empty"
      [] outcome = "broken" -> "partial"
      [] OTHER -> "complete"

\* __init__, lines 46-52: the path the constructor tries to open
InitPath ==
    IF Exists(sqliteFile) THEN "cwd"
    ELSE IF dbpath = "valid" THEN "other"
    ELSE IF dbpath = "stale" THEN "stale"
    ELSE "unset"

\* sqlite3.connect("file:...?mode=rw"): opens only a file that exists; an
\* unset self.sqlite_file raises as well (the bare except catches both)
CanConnect(path) ==
    \/ path = "other"
    \/ path = "cwd" /\ Exists(sqliteFile)

\* lines 129-140 without the second guard
AlreadyExistsGzOnly(gz, sq) == Exists(gz)

\* lines 129-140: the two guards of download_sradb
AlreadyExists(gz, sq) == Exists(gz) \/ Exists(sq)

\* SELECT * FROM metaInfo on the store a cursor is open on
MetaInfo(c, sq) == IF c = "cwd" THEN sq ELSE "other"

\* lines 46-57 and 80: find the store and open it
Init_Open ==
    /\ pc = "start"
    /\ sqlite_file' = InitPath
    /\ IF CanConnect(InitPath)
       THEN /\ db' = InitPath
            /\ cursor' = InitPath
            /\ pc' = "ready"
       ELSE /\ pc' = "ask_download"
            /\ UNCHANGED <<db, cursor>>
    /\ UNCHANGED <<err, fileVars, acqVars, storeVars, callVars, cascadeVars>>

\* lines 58-61 and 66: "Download file? Enter [y/n]"
Init_AskDownload ==
    /\ pc = "ask_download"
    /\ \E value \in {"y", "n"} :
          IF value = "y"
          THEN pc' = "dl_guard" /\ ctx' = "init"
          ELSE pc' = "ask_path" /\ ctx' = ctx
    /\ UNCHANGED <<err, fileVars, selfVars, io, provenance, storeVars, callVars,
                   cascadeVars>>

\* lines 67-78: "Enter the path to your SRAmetadb.sqlite file"
Init_AskPath ==
    /\ pc = "ask_path"
    /\ \E value \in {"n", "other", "stale"} :
          IF value = "n"
          THEN /\ pc' = "exited"
               /\ UNCHANGED <<err, sqlite_file, db, cursor, dbpath>>
          ELSE IF CanConnect(value)
          THEN /\ sqlite_file' = value
               /\ db' = value
               /\ cursor' = value
               /\ dbpath' = "valid"
               /\ pc' = "ready"
               /\ err' = err
          ELSE /\ sqlite_file' = value
               /\ pc' = "failed"
               /\ err' = "OperationalError"
               /\ UNCHANGED <<db, cursor, dbpath>>
    /\ UNCHANGED <<gzFile, sqliteFile, fs0, acqVars, storeVars, callVars, cascadeVars>>

\* line 369: the command line names download_sradb
Command_download_sradb ==
    /\ pc = "ready"
    /\ arg = NoArg
    /\ ctx = "none"
    /\ ctx' = "cli"
    /\ pc' = "dl_guard"
    /\ UNCHANGED <<err, fileVars, selfVars, io, provenance, storeVars, callVars,
                   cascadeVars>>

\* download_sradb, lines 126-140
download_sradb_guard ==
    /\ pc = "dl_guard"
    /\ IF AlreadyExists(gzFile, sqliteFile)
       THEN pc' = "failed" /\ err' = "RuntimeError"
       ELSE pc' = "dl_primary" /\ err' = err
    /\ UNCHANGED <<fileVars, selfVars, acqVars, storeVars, callVars, cascadeVars>>

\* download_sradb, lines 142-150: SRADB_URL[0]
download_sradb_primary ==
    /\ pc = "dl_primary"
    /\ \E o \in Outcomes :
          /\ gzFile' = _download(o)
          /\ io' = Append(io, [op |-> "get", mirror |-> 0, outcome |-> o])
          /\ pc' = IF o = "ok" THEN "dl_extract" ELSE "dl_secondary"
    /\ UNCHANGED <<err, sqliteFile, dbpath, fs0, selfVars, ctx, provenance, storeVars,
                   callVars, cascadeVars>>

\* download_sradb, lines 151-158: SRADB_URL[1]; a failure is written to
\* stderr and the method goes on
download_sradb_secondary ==
    /\ pc = "dl_secondary"
    /\ \E o \in Outcomes :
          /\ gzFile' = _download(o)
          /\ io' = Append(io, [op |-> "get", mirror |-> 1, outcome |-> o])
          /\ pc' = "dl_extract"
    /\ UNCHANGED <<err, sqliteFile, dbpath, fs0, selfVars, ctx, provenance, storeVars,
                   callVars, cascadeVars>>

\* download_sradb, lines 160-164: gzip.open, open(..., "wb"), copyfileobj.
\* An empty input decompresses to an empty file; a truncated one raises
\* EOFError after the output file was created.
download_sradb_extract ==
    /\ pc = "dl_extract"
    /\ io' = Append(io, [op |-> "extract", mirror |-> -1, outcome |-> gzFile])
    /\ CASE gzFile = "complete" ->
              sqliteFile' = "new" /\ pc' = "dl_meta" /\ err' = err
         [] gzFile = "empty" ->
              sqliteFile' = "empty" /\ pc' = "dl_meta" /\ err' = err
         [] OTHER ->
              sqliteFile' = "corrupt" /\ pc' = "failed" /\ err' = "EOFError"
    /\ UNCHANGED <<gzFile, dbpath, fs0, selfVars, ctx, provenance, storeVars, callVars,
                   cascadeVars>>

\* download_sradb, lines 166-169: read metaInfo on self.cursor; then, in the
\* constructor, lines 62-65 and 80
download_sradb_meta ==
    /\ pc = "dl_meta"
    /\ IF cursor = "unset"
       THEN /\ pc' = "failed"
            /\ err' = "AttributeError"
            /\ UNCHANGED <<provenance, selfVars>>
       ELSE /\ provenance' = MetaInfo(cursor, sqliteFile)
            /\ err' = err
            /\ IF ctx = "init"
               THEN /\ sqlite_file' = "cwd"
                    /\ db' = "cwd"
                    /\ cursor' = "cwd"
                    /\ pc' = "ready"
               ELSE /\ pc' = "done"
                    /\ UNCHANGED selfVars
    /\ UNCHANGED <<fileVars, ctx, io, storeVars, callVars, cascadeVars>>

\* the state a process starts in: the files left by earlier runs
Init ==
    /\ pc = "start"
    /\ ctx = "none"
    /\ gzFile \in {"absent", "empty", "partial", "complete"}
    /\ sqliteFile \in {"absent", "old"}
    /\ dbpath \in {"absent", "valid", "stale"}
    /\ fs0 = [gz |-> gzFile, sqlite |-> sqliteFile]
    /\ sqlite_file = "unset"
    /\ db = "none"
    /\ cursor = "unset"
    /\ io = <<>>
    /\ err = "none"
    /\ provenance = "none"
    /\ sra = <<>>
    /\ experiment = <<>>
    /\ arg = NoArg
    /\ ret = RetNone
    /\ printed = <<>>
    /\ notices = <<>>
    /\ executed = <<>>
    /\ todo = {}
    /\ visited = <<>>
    /\ results_final = <<>>
    /\ disc = <<>>

Next ==
    \/ Init_Open
    \/ Init_AskDownload
    \/ Init_AskPath
    \/ Command_download_sradb
    \/ download_sradb_guard
    \/ download_sradb_primary
    \/ download_sradb_secondary
    \/ download_sradb_extract
    \/ download_sradb_meta

Spec == Init /\ [][Next]_vars

(***************************************************************************)
(* Text and the store                                                      *)
(***************************************************************************)
\* most rows of the sra relation in a store
MaxRows == 2

\* most terms in an explicit sequence of terms
MaxTerms == 2

\* longest inline string of terms
MaxStrLen == 2

\* most lines in a term-group file or an accession file
MaxLines == 2

\* most tiers an output selection names
MaxTiers == 4

Alphabet == {"a", "b"}

\* all text over Alphabet of length at most n
Str(n) == UNION {[1..k -> Alphabet] : k \in 0..n}

\* all sequences over S of length at most n
SeqsUpTo(S, n) == UNION {[1..k -> S] : k \in 0..n}

Digits == <<"1", "2", "3", "4", "5", "6">>

\* accessions: P1 stands for a study (SRP...), X1 for an experiment
\* (SRX...), R1 for a run (SRR...)
SRP(i) == <<"P", Digits[i]>>

SRX(i) == <<"X", Digits[i]>>

SRR(i) == <<"R", Digits[i]>>

\* _terms_helper, lines 325-326
columns ==
    <<"experiment_title", "study_name", "design_description", "sample_name",
      "library_strategy", "library_construction_protocol", "platform",
      "instrument_model", "platform_parameters", "study_abstract">>

ColumnSet == {columns[i] : i \in 1..Len(columns)}

\* v contains t as a contiguous substring
IsSubstr(t, v) ==
    \E i \in 0..(Len(v) - Len(t)) : SubSeq(v, i + 1, i + Len(t)) = t

\* SQL: v LIKE "%t%", for text without wildcard characters, quotes or
\* letters that differ in case only; NULL LIKE anything is not true
Like(v, t) == v # NULL /\ IsSubstr(t, v)

\* Python's str.split(sep) for a one-character sep
RECURSIVE SplitFrom(_, _, _, _)
SplitFrom(s, sep, i, cur) ==
    IF i > Len(s) THEN <<cur>>
    ELSE IF s[i] = sep THEN <<cur>> \o SplitFrom(s, sep, i + 1, <<>>)
    ELSE SplitFrom(s, sep, i + 1, Append(cur, s[i]))

split(s, sep) == SplitFrom(s, sep, 1, <<>>)

\* Python's str.rstrip("\n")
RECURSIVE rstrip(_)
rstrip(s) ==
    IF Len(s) > 0 /\ s[Len(s)] = "\n" THEN rstrip(SubSeq(s, 1, Len(s) - 1)) ELSE s

\* for x in terms: a str yields its characters, a list or tuple its elements
Iter(kind, v) == IF kind = "str" THEN [i \in 1..Len(v) |-> <<v[i]>>] ELSE v

\* a row of sra: the three accessions and the ten text columns
MkRow(study, exp, run, txt) ==
    [c \in ColumnSet \cup {"study_accession", "experiment_accession", "run_accession"} |->
        CASE c = "study_accession" -> study
          [] c = "experiment_accession" -> exp
          [] c = "run_accession" -> run
          [] OTHER -> txt[c]]

AllNull == [c \in ColumnSet |-> NULL]

AllEmpty == [c \in ColumnSet |-> <<>>]

(***************************************************************************)
(* terms and _terms_helper                                                 *)
(***************************************************************************)
\* a piece of query_string
Tok(k, col, t) == [k |-> k, col |-> col, t |-> t]

Lit(k) == Tok(k, "", <<>>)

\* the number of characters of the pieces the slices cut off
TokLen(tok) ==
    CASE tok.k = " OR " -> 4
      [] tok.k = "HERE (" -> 6
      [] tok.k = " AND (" -> 6
      [] OTHER -> 0 - 1

\* query_string[:-n]
DropChars(q, n) ==
    IF Len(q) > 0 /\ TokLen(q[Len(q)]) = n
    THEN SubSeq(q, 1, Len(q) - 1)
    ELSE Append(q, Lit("<cut inside a piece>"))

\* lines 341-342: c + ' LIKE "%' + t + '%" OR ' for every column
Clauses(t) ==
    [i \in 1..(2 * Len(columns)) |->
        IF i % 2 = 1 THEN Tok("LIKE", columns[(i + 1) \div 2], t) ELSE Lit(" OR ")]

\* lines 340-344
RECURSIVE AddTerms(_, _, _)
AddTerms(q, ts, i) ==
    IF i > Len(ts) THEN q
    ELSE AddTerms(DropChars(q \o Clauses(ts[i]), 4) \o <<Lit(")"), Lit(" AND (")>>,
                  ts, i + 1)

\* lines 333-346: the statement text
QueryString(ts, output) ==
    DropChars(AddTerms(<<Tok("SELECT DISTINCT ", "", output), Lit(" FROM sra W"),
                         Lit("HERE (")>>, ts, 1), 6)

\* line 336 with the limit off by one
TooManyTiersOffByOne(output_count) == output_count > 4

\* line 336
TooManyTiers(output_count) == output_count > 3

\* line 334: output.count(',') + 1
OutputCount(output) == Len(SelectSeq(output, LAMBDA x : x = ",")) + 1

\* the columns a SELECT list names
SelectList(output) == SelectSeq(output, LAMBDA x : x # ",")

\* the conjuncts of a statement's WHERE: the places where "(" opens
Groups(q) == {i \in 1..Len(q) : q[i].k \in {"HERE (", " AND ("}}

GroupEnd(q, g) ==
    IF \E j \in (g + 1)..Len(q) : q[j].k = ")"
    THEN CHOOSE j \in (g + 1)..Len(q) :
            q[j].k = ")" /\ \A m \in (g + 1)..(j - 1) : q[m].k # ")"
    ELSE Len(q) + 1

\* whether a row satisfies the statement.  "FROM sra W" with nothing after
\* it names sra by the alias W and has no WHERE.
Satisfies(row, q) ==
    \A g \in Groups(q) :
        \E j \in (g + 1)..(GroupEnd(q, g) - 1) :
            q[j].k = "LIKE" /\ Like(row[q[j].col], q[j].t)

Project(row, cols) == [i \in 1..Len(cols) |-> row[cols[i]]]

\* order-preserving removal of repeats: SELECT DISTINCT in scan order, and
\* list(OrderedDict.fromkeys(...))
RECURSIVE FirstSeen(_, _, _)
FirstSeen(s, i, acc) ==
    IF i > Len(s) THEN acc
    ELSE IF \E j \in 1..Len(acc) : acc[j] = s[i] THEN FirstSeen(s, i + 1, acc)
    ELSE FirstSeen(s, i + 1, Append(acc, s[i]))

Distinct(s) == FirstSeen(s, 1, <<>>)

\* cursor.execute(query_string).fetchall()
Execute(q, rows) ==
    LET hit == SelectSeq(rows, LAMBDA r : Satisfies(r, q))
        cols == SelectList(q[1].t)
    IN  Distinct([i \in 1..Len(hit) |-> Project(hit[i], cols)])

\* lines 355-360: the line printed for a result tuple
PrintLine(r, output_count) ==
    IF output_count = 1 THEN <<r[1]>>
    ELSE IF output_count = 2 THEN <<r[1], r[2]>>
    ELSE <<r[1], r[2], r[3]>>

Outcome(r, p, n, e) == [ret |-> r, printed |-> p, notices |-> n, executed |-> e]

\* _terms_helper, lines 333-362
_terms_helper(ts, output, print_out, rows) ==
    LET output_count == OutputCount(output)
        query_string == QueryString(ts, output)
        results == Execute(query_string, rows)
        ran == <<[sql |-> query_string, rows |-> results]>>
    IN  IF TooManyTiers(output_count)
        THEN Outcome(RetNone, <<>>, <<"Error: limit output">>, <<>>)
        ELSE IF results = <<>>
        THEN Outcome(RetNone, <<>>, <<"No submissions match">>, ran)
        ELSE IF print_out
        THEN Outcome(RetNone,
                     [i \in 1..Len(results) |-> PrintLine(results[i], output_count)],
                     <<>>, ran)
        ELSE Outcome(RetList(results), <<>>, <<>>, ran)

\* lines 309-311: the term group of one line of a file
LineTerms(line) ==
    LET parts == split(line, ",") IN [i \in 1..Len(parts) |-> rstrip(parts[i])]

\* lines 307-312: one _terms_helper call per line, its value dropped
RECURSIVE TermsOfFile(_, _, _, _, _, _)
TermsOfFile(lines, i, output, print_out, rows, acc) ==
    IF i > Len(lines) THEN acc
    ELSE LET o == _terms_helper(LineTerms(lines[i]), output, print_out, rows)
         IN  TermsOfFile(lines, i + 1, output, print_out, rows,
                         Outcome(RetNone, acc.printed \o o.printed,
                                 acc.notices \o o.notices, acc.executed \o o.executed))

\* terms, lines 306-317
terms(kind, v, output, print_out, rows) ==
    IF kind = "file"
    THEN TermsOfFile(v, 1, output, print_out, rows, Outcome(RetNone, <<>>, <<>>, <<>>))
    ELSE _terms_helper(Iter(kind, v), output, print_out, rows)

(***************************************************************************)
(* One call of terms on an open store: SpecTerms                           *)
(***************************************************************************)
\* the state of a process whose constructor has opened cwd/SRAmetadb.sqlite
Opened ==
    /\ pc = "ready"
    /\ ctx = "none"
    /\ gzFile = "absent"
    /\ sqliteFile = "old"
    /\ dbpath = "absent"
    /\ fs0 = [gz |-> gzFile, sqlite |-> sqliteFile]
    /\ sqlite_file = "cwd"
    /\ db = "cwd"
    /\ cursor = "cwd"
    /\ io = <<>>
    /\ err = "none"
    /\ provenance = "none"
    /\ ret = RetNone
    /\ printed = <<>>
    /\ notices = <<>>
    /\ executed = <<>>
    /\ todo = {}
    /\ visited = <<>>
    /\ results_final = <<>>
    /\ disc = <<>>

\* the text columns of the rows the stores are made of
RowTexts ==
    { AllNull,
      [AllNull EXCEPT !["library_strategy"] = <<"a", "b">>],
      [AllNull EXCEPT !["library_strategy"] = <<"b", "a">>],
      [AllEmpty EXCEPT !["experiment_title"] = <<"a">>, !["study_abstract"] = <<"b">>] }

\* stores of at most MaxRows runs; runs 1 and 2 belong to study P1, runs 3
\* and 4 to P2, ...
TermsStores ==
    UNION { { [i \in 1..n |-> MkRow(SRP((i + 1) \div 2), SRX(i), SRR(i), t[i])] :
                t \in [1..n -> RowTexts] } : n \in 0..MaxRows }

TermPool == {<<>>, <<"a">>, <<"b", "a">>}

LinePool == {<<"a", "b", "\n">>, <<"a", ",", "b">>, <<"\n">>}

Tiers == <<"run_accession", "experiment_accession", "study_accession">>

\* an output argument naming n tiers: 'run_accession,experiment_accession,...'
Output(n) ==
    [i \in 1..(2 * n - 1) |->
        IF i % 2 = 1 THEN Tiers[(((i + 1) \div 2 - 1) % Len(Tiers)) + 1] ELSE ","]

TermSources ==
    ({"tuple"} \X SeqsUpTo(TermPool, MaxTerms))
        \cup ({"str"} \X Str(MaxStrLen))
        \cup ({"file"} \X SeqsUpTo(LinePool, MaxLines))

InitTerms ==
    /\ Opened
    /\ sra \in TermsStores
    /\ experiment = <<>>
    /\ arg \in { [kind |-> src[1], v |-> src[2], output |-> Output(n), print_out |-> p] :
                    src \in TermSources, n \in 1..MaxTiers, p \in BOOLEAN }

\* line 369 and terms, lines 306-317
Call_terms ==
    /\ pc = "ready"
    /\ arg.kind \in {"tuple", "str", "file"}
    /\ LET o == terms(arg.kind, arg.v, arg.output, arg.print_out, sra)
       IN  /\ ret' = o.ret
           /\ printed' = o.printed
           /\ notices' = o.notices
           /\ executed' = o.executed
    /\ pc' = "done"
    /\ UNCHANGED <<err, fileVars, selfVars, acqVars, storeVars, arg, cascadeVars>>

NextTerms == Call_terms

SpecTerms == InitTerms /\ [][NextTerms]_vars

(***************************************************************************)
(* One call of all_sm_lcp on an open store: SpecCascade                    *)
(***************************************************************************)
\* most rows of the experiment relation in a store
MaxExps == 2

Studies == {SRP(1), SRP(2)}

\* a row of experiment
MkExp(exp, study, lcp) ==
    [experiment_accession |-> exp, study_accession |-> study,
     library_construction_protocol |-> lcp]

\* SQL_dict['all_sm_lcp'], line 18
Execute_all_sm_lcp(rows) ==
    LET hit == SelectSeq(rows, LAMBDA r : r["library_construction_protocol"] # NULL)
    IN  [i \in 1..Len(hit) |-> <<hit[i]["experiment_accession"]>>]

\* SQL_dict['all_sm_lcp_kw'], lines 19-20, with study_accession bound to study
Execute_all_sm_lcp_kw(study, exps) ==
    LET hit == SelectSeq(exps, LAMBDA r : /\ r["study_accession"] = study
                                          /\ r["library_construction_protocol"] # NULL)
    IN  [i \in 1..Len(hit) |-> <<hit[i]["experiment_accession"]>>]

\* line 103 with the dedup left out
fromkeysKeepsRepeats(s) == s

\* line 103: list(OrderedDict.fromkeys(results_final))
fromkeys(s) == Distinct(s)

\* line 96: the output argument 'study_accession, run_accession'
StudyRun == <<"study_accession", ",", "run_accession">>

\* line 369 and all_sm_lcp, lines 91-98: without terms the one statement of
\* lines 93-94; with terms the first phase, and set(srps), which raises
\* TypeError when terms returned None
Call_all_sm_lcp ==
    /\ pc = "ready"
    /\ arg.kind \in {"default", "tuple", "str", "file"}
    /\ IF arg.kind = "default"
       THEN /\ executed' = <<[sql |-> <<Lit("all_sm_lcp")>>,
                              rows |-> Execute_all_sm_lcp(sra)]>>
            /\ ret' = RetList(Execute_all_sm_lcp(sra))
            /\ pc' = "done"
            /\ UNCHANGED <<err, notices, printed, todo>>
       ELSE LET srps == terms(arg.kind, arg.v, StudyRun, FALSE, sra)
            IN  /\ executed' = srps.executed
                /\ notices' = srps.notices
                /\ printed' = srps.printed
                /\ ret' = ret
                /\ IF srps.ret.isNone
                   THEN pc' = "failed" /\ err' = "TypeError" /\ todo' = todo
                   ELSE /\ pc' = "visit"
                        /\ err' = err
                        /\ todo' = {srps.ret.val[i] : i \in 1..Len(srps.ret.val)}
    /\ UNCHANGED <<fileVars, selfVars, acqVars, storeVars, arg, visited, results_final,
                   disc>>

\* lines 99-102: the next element of unique_srps, in the order the set
\* happens to have
all_sm_lcp_visit ==
    /\ pc = "visit"
    /\ \E srp \in todo :
          LET results == Execute_all_sm_lcp_kw(srp[1], experiment)
          IN  /\ todo' = todo \ {srp}
              /\ visited' = Append(visited, srp)
              /\ executed' = Append(executed,
                                    [sql |-> <<Tok("all_sm_lcp_kw", "", srp[1])>>,
                                     rows |-> results])
              /\ results_final' =
                    results_final \o [i \in 1..Len(results) |-> results[i][1]]
              /\ disc' = disc \o [i \in 1..Len(results) |->
                                    [acc |-> results[i][1], visit |-> Len(visited) + 1]]
    /\ UNCHANGED <<pc, err, fileVars, selfVars, acqVars, storeVars, arg, ret, printed,
                   notices>>

\* lines 103-104
all_sm_lcp_return ==
    /\ pc = "visit"
    /\ todo = {}
    /\ results_final' = fromkeys(results_final)
    /\ ret' = RetList(fromkeys(results_final))
    /\ pc' = "done"
    /\ UNCHANGED <<err, fileVars, selfVars, acqVars, storeVars, arg, printed, notices,
                   executed, todo, visited, disc>>

CascadeRowTexts ==
    {AllNull, [AllNull EXCEPT !["library_construction_protocol"] = <<"a", "b">>]}

CascadeStores ==
    UNION { { [i \in 1..n |-> MkRow(st[i], SRX(i), SRR(i), t[i])] :
                st \in [1..n -> Studies], t \in [1..n -> CascadeRowTexts] } :
            n \in 0..MaxRows }

ExperimentTables ==
    UNION { { [i \in 1..n |-> MkExp(SRX(i), st[i], lcp[i])] :
                st \in [1..n -> Studies], lcp \in [1..n -> {NULL, <<"p">>}] } :
            n \in 0..MaxExps }

CascadeSources ==
    { <<"default", <<>>>>,
      <<"tuple", << <<"a">> >> >>,
      <<"tuple", << <<"b", "a">> >> >>,
      <<"str", <<"a">> >>,
      <<"file", << <<"a", "b", "\n">> >> >> }

InitCascade ==
    /\ Opened
    /\ sra \in CascadeStores
    /\ experiment \in ExperimentTables
    /\ arg \in { [kind |-> src[1], v |-> src[2]] : src \in CascadeSources }

NextCascade ==
    \/ Call_all_sm_lcp
    \/ all_sm_lcp_visit
    \/ all_sm_lcp_return

SpecCascade == InitCascade /\ [][NextCascade]_vars

(***************************************************************************)
(* One call of srx_sa_lcp on an open store: SpecExtract                    *)
(***************************************************************************)
\* most accessions in an explicit sequence of accessions
MaxAcc == 2

\* Python's str(x)
PyStr(x) == IF x = NULL THEN <<"N", "o", "n", "e">> ELSE x

\* lines 238-242 and 255: the columns selected
switcher(sa_lcp) ==
    CASE sa_lcp = "sa" -> <<"study_abstract">>
      [] sa_lcp = "lcp" -> <<"library_construction_protocol">>
      [] OTHER -> <<"study_abstract", "library_construction_protocol">>

\* lines 244-253: srx_list
SrxList(kind, v) ==
    CASE kind = "file" ->
            LET RECURSIVE Lines(_)
                Lines(i) ==
                    IF i > Len(v) THEN <<>>
                    ELSE LET parts == split(v[i], ",")
                         IN  [k \in 1..Len(parts) |-> rstrip(parts[k])] \o Lines(i + 1)
            IN  Lines(1)
      [] kind = "tuple" -> v
      [] OTHER -> <<v>>

\* SQL_dict['srx_sa_lcp'], line 31, with experiment_accession bound
Execute_srx_sa_lcp(cols, accession, rows) ==
    LET hit == SelectSeq(rows, LAMBDA r : r["experiment_accession"] = accession)
    IN  [i \in 1..Len(hit) |-> Project(hit[i], cols)]

\* lines 261-264: what is appended to results_final for a row
Entry(r, sa_lcp) ==
    IF sa_lcp = "sa" \/ sa_lcp = "lcp"
    THEN r[1]
    ELSE <<"abstract:\n">> \o PyStr(r[1])
            \o <<"\n\nlibrary construction protocol:\n">> \o PyStr(r[2])

\* lines 258-264
RECURSIVE Collect(_, _, _, _)
Collect(srx_list, i, sa_lcp, rows) ==
    IF i > Len(srx_list) THEN <<>>
    ELSE LET results == Execute_srx_sa_lcp(switcher(sa_lcp), srx_list[i], rows)
         IN  [k \in 1..Len(results) |-> Entry(results[k], sa_lcp)]
                \o Collect(srx_list, i + 1, sa_lcp, rows)

\* the first None in a list, or one past its end
FirstNone(l) ==
    IF \E i \in 1..Len(l) : l[i] = NULL
    THEN CHOOSE i \in 1..Len(l) : l[i] = NULL /\ \A j \in 1..(i - 1) : l[j] # NULL
    ELSE Len(l) + 1

\* line 369 and srx_sa_lcp, lines 236-270.  print(result + '\n') raises
\* TypeError at the first result that is None.
Call_srx_sa_lcp ==
    /\ pc = "ready"
    /\ arg.kind \in {"tuple", "str", "file"}
    /\ LET srx_list == SrxList(arg.kind, arg.v)
           collected == Collect(srx_list, 1, arg.sa_lcp, sra)
           stop == FirstNone(collected)
       IN  /\ results_final' = collected
           /\ executed' = [i \in 1..Len(srx_list) |->
                             [sql |-> <<Tok("srx_sa_lcp", "", srx_list[i])>>,
                              rows |-> Execute_srx_sa_lcp(switcher(arg.sa_lcp),
                                                          srx_list[i], sra)]]
           /\ notices' = IF collected = <<>> THEN <<"contains no data">> ELSE <<>>
           /\ printed' = [i \in 1..(stop - 1) |-> Append(collected[i], "\n")]
           /\ IF stop <= Len(collected)
              THEN pc' = "failed" /\ err' = "TypeError"
              ELSE pc' = "done" /\ err' = err
    /\ UNCHANGED <<fileVars, selfVars, acqVars, storeVars, arg, ret, todo, visited, disc>>

\* stores in which an experiment may have several runs, and abstract and
\* protocol may be NULL
ExtractStores ==
    UNION { { [i \in 1..n |->
                 MkRow(SRP(1), SRX(x[i]), SRR(i),
                       [AllNull EXCEPT !["study_abstract"] = sa[i],
                                       !["library_construction_protocol"] = lcp[i]])] :
                x \in [1..n -> 1..2], sa \in [1..n -> {NULL, <<"a">>}],
                lcp \in [1..n -> {NULL, <<"b">>}] } :
            n \in 0..MaxRows }

\* X3 is in no store
AccessionPool == {SRX(1), SRX(2), SRX(3)}

AccessionLinePool ==
    { <<"X", "1", "\n">>, <<"X", "2", ",", "X", "3", "\n">>, <<"X", "1">> }

AccessionSources ==
    ({"tuple"} \X SeqsUpTo(AccessionPool, MaxAcc))
        \cup ({"str"} \X AccessionPool)
        \cup ({"file"} \X SeqsUpTo(AccessionLinePool, MaxLines))

InitExtract ==
    /\ Opened
    /\ sra \in ExtractStores
    /\ experiment = <<>>
    /\ arg \in { [kind |-> src[1], v |-> src[2], sa_lcp |-> sel] :
                    src \in AccessionSources, sel \in {"sa", "lcp", "sa_lcp"} }

NextExtract == Call_srx_sa_lcp

SpecExtract == InitExtract /\ [][NextExtract]_vars


(***************************************************************************)
(* Claims about download_sradb, checked under Spec                         *)
(***************************************************************************)
\* the requests made to the mirrors, and the decompressions, in order
Gets(s) == SelectSeq(s, LAMBDA e : e.op = "get")

Extracts(s) == SelectSeq(s, LAMBDA e : e.op = "extract")

BothMirrorsFailed ==
    /\ Len(Gets(io)) = 2
    /\ \A i \in 1..2 : Gets(io)[i].outcome # "ok"

FellBackToSecondary ==
    /\ Len(Gets(io)) = 2
    /\ Gets(io)[1].outcome # "ok"
    /\ Gets(io)[2].outcome = "ok"

\* C1: when download_sradb is called while SRAmetadb.sqlite.gz or
\* SRAmetadb.sqlite exists, the call fails with the "already exists"
\* RuntimeError, no request is made to either mirror, nothing is extracted,
\* and both files are left exactly as they were.
C1_AcquisitionGuard ==
    (ctx # "none" /\ pc # "dl_guard" /\ (fs0.gz # "absent" \/ fs0.sqlite # "absent"))
        => /\ pc = "failed"
           /\ err = "RuntimeError"
           /\ io = <<>>
           /\ gzFile = fs0.gz
           /\ sqliteFile = fs0.sqlite

\* C1's case: the command is given while the decompressed snapshot alone exists
C1_Witness ==
    /\ ctx = "cli"
    /\ pc = "failed"
    /\ err = "RuntimeError"
    /\ fs0.gz = "absent"
    /\ fs0.sqlite = "old"

\* C2: once both mirror downloads have failed, the decompression step is
\* never entered and the call ends as a failure.
C2_NoDecompressionAfterBothFail ==
    BothMirrorsFailed => (Extracts(io) = <<>> /\ pc \in {"dl_extract", "failed"})

\* C3: primary fails, secondary succeeds: the call completes without an
\* error and the metaInfo it reports was read from the newly decompressed
\* snapshot, from the command line and from the constructor alike.
C3_MirrorFallbackProvenance ==
    (FellBackToSecondary /\ pc \notin {"dl_extract", "dl_meta"})
        => /\ err = "none"
           /\ provenance = "new"

(***************************************************************************)
(* Claims about terms, checked under SpecTerms                             *)
(***************************************************************************)
\* the term groups a term source stands for: the terms of an explicit
\* sequence, the comma-separated terms of an inline string, and one group
\* per line of a file
TermGroups(kind, v) ==
    CASE kind = "tuple" -> <<v>>
      [] kind = "str" -> IF v = <<>> THEN << <<>> >> ELSE <<split(v, ",")>>
      [] OTHER -> [i \in 1..Len(v) |-> LineTerms(v[i])]

\* row r has, for every term of T, a text column that contains the term
MatchesAll(r, T) ==
    \A i \in 1..Len(T) :
        \E c \in ColumnSet : r[c] # NULL /\ IsSubstr(T[i], r[c])

\* the tuples a call handed to its caller or printed
Yielded == {ret.val[i] : i \in 1..Len(ret.val)} \cup {printed[i] : i \in 1..Len(printed)}

\* C4: a call with a term group of zero terms runs no statement that
\* returns rows of sra, whatever tiers are selected.
C4_EmptyTermGroupRunsNothing ==
    (pc = "done" /\ arg.kind \in {"tuple", "str"} /\ arg.v = <<>>)
        => \A i \in 1..Len(executed) : executed[i].rows = <<>>

\* C5: with a non-empty term group and at most 3 tiers, every tuple yielded
\* is the projection of a row of sra that has, for every term of the group,
\* a text column containing the whole term (so a row whose text columns are
\* all null or empty yields nothing for a group with a non-empty term).
C5_MatchSoundness ==
    (pc = "done" /\ OutputCount(arg.output) <= 3 /\ arg.v # <<>>)
        => \A tup \in Yielded :
              \E g \in 1..Len(TermGroups(arg.kind, arg.v)) :
                  \E i \in 1..Len(sra) :
                      /\ Project(sra[i], SelectList(arg.output)) = tup
                      /\ MatchesAll(sra[i], TermGroups(arg.kind, arg.v)[g])

\* C6: a term group asked for with 4 or more tiers is refused with the
\* "limit output" message, yields nothing and runs no statement; one asked
\* for with at most 3 tiers has its statement run, once.
C6_TierCountBoundary ==
    pc = "done"
        => LET n == Len(TermGroups(arg.kind, arg.v))
           IN  IF OutputCount(arg.output) >= 4
               THEN /\ executed = <<>>
                    /\ ret = RetNone
                    /\ printed = <<>>
                    /\ notices = [i \in 1..n |-> "Error: limit output"]
               ELSE /\ Len(executed) = n
                    /\ \A i \in 1..Len(notices) : notices[i] # "Error: limit output"

\* C6's case: 4 tiers asked of a store in which the terms match a row
C6_Witness ==
    /\ pc = "done"
    /\ OutputCount(arg.output) = 4
    /\ arg.kind = "tuple"
    /\ arg.v = << <<"a">> >>
    /\ \E i \in 1..Len(sra) : MatchesAll(sra[i], arg.v)
    /\ notices = <<"Error: limit output">>
    /\ executed = <<>>

(***************************************************************************)
(* Claims about all_sm_lcp with terms, checked under SpecCascade           *)
(***************************************************************************)
WithTerms == arg.kind \in {"tuple", "str", "file"}

FirstPhase == SelectSeq(executed, LAMBDA e : e.sql[1].k = "SELECT DISTINCT ")

SecondPhase == SelectSeq(executed, LAMBDA e : e.sql[1].k = "all_sm_lcp_kw")

\* the rows the first phase matched
FirstPhaseRows ==
    UNION { {FirstPhase[j].rows[i] : i \in 1..Len(FirstPhase[j].rows)} :
            j \in 1..Len(FirstPhase) }

MatchedStudies == {r[1] : r \in FirstPhaseRows}

\* the visit in which an accession was first appended to results_final
FirstVisit(a) ==
    LET vs == {disc[k].visit : k \in {m \in 1..Len(disc) : disc[m].acc = a}}
    IN  CHOOSE v \in vs : \A w \in vs : v <= w

\* C7: when the first phase matches no row, the call returns an empty
\* sequence and does not raise.
C7_NoMatchYieldsEmpty ==
    (WithTerms /\ pc \in {"done", "failed"} /\ FirstPhaseRows = {})
        => /\ pc = "done"
           /\ err = "none"
           /\ ret = RetList(<<>>)

\* C8: the sequence returned holds no accession twice, and an accession
\* that comes earlier in it was first found in a visit no later than the
\* visit that first found any accession after it.
C8_CascadeDedupOrder ==
    (WithTerms /\ pc = "done")
        => /\ ~ret.isNone
           /\ \A i, j \in 1..Len(ret.val) :
                 i < j => /\ ret.val[i] # ret.val[j]
                          /\ FirstVisit(ret.val[i]) <= FirstVisit(ret.val[j])
           /\ {ret.val[i] : i \in 1..Len(ret.val)} \subseteq {disc[k].acc : k \in 1..Len(disc)}

\* C8's case: a study visited twice, so that every accession was appended
\* twice, and two accessions returned
C8_Witness ==
    /\ WithTerms
    /\ pc = "done"
    /\ Len(visited) = 2
    /\ visited[1][1] = visited[2][1]
    /\ Len(disc) = 4
    /\ Len(ret.val) = 2

\* C9: the per-study statement is run exactly once for each distinct study
\* the first phase matched.
C9_OneQueryPerStudy ==
    (WithTerms /\ pc = "done")
        => \A s \in MatchedStudies :
              Cardinality({k \in 1..Len(SecondPhase) : SecondPhase[k].sql[1].t = s}) = 1

(***************************************************************************)
(* Claims about srx_sa_lcp, checked under SpecExtract                      *)
(***************************************************************************)
\* the accessions a source names, in order
InputAccessions == SrxList(arg.kind, arg.v)

\* what the keyed lookups of the first n accessions print, in order
RECURSIVE LookupsPrinted(_)
LookupsPrinted(n) ==
    IF n = 0 THEN <<>>
    ELSE LET rs == Execute_srx_sa_lcp(switcher(arg.sa_lcp), InputAccessions[n], sra)
         IN  LookupsPrinted(n - 1)
                \o [k \in 1..Len(rs) |-> Append(Entry(rs[k], arg.sa_lcp), "\n")]

\* C10: the call ends without an error and its output is, in input order,
\* what one keyed lookup per input accession yields; a repeated accession
\* yields its output again and an accession in no row yields nothing.
C10_ExtractInOrder ==
    pc \in {"done", "failed"}
        => /\ err = "none"
           /\ printed = LookupsPrinted(Len(InputAccessions))
           /\ Len(executed) = Len(InputAccessions)

====
